---- MODULE Spec2Model ----
(***************************************************************************)
(* Two CDK stacks of the expense-tracker deployment.                       *)
(*                                                                         *)
(*   ExpenseTrackerServicesDeployStack (lib/infra-stack.ts): the network   *)
(*   stage.  A VPC with one public and one private subnet per zone, an     *)
(*   internet gateway, two NAT gateways, the default routes, and the SSM   *)
(*   parameters that export the VPC id and the subnet ids.                 *)
(*                                                                         *)
(*   ExpenseTrackerServices (the services stack): the workload stage.  It  *)
(*   looks the exported ids up in the parameter store, then declares a     *)
(*   security group, an ECS cluster, an internal NLB, three Fargate task   *)
(*   definitions and services, two target groups and listeners, and        *)
(*   exports the NLB's DNS name.                                           *)
(*                                                                         *)
(* A stack's constructor runs first as a whole (synthesis); its resources  *)
(* are then created one declaration at a time.  The two stages interleave  *)
(* freely: the only thing that orders them is the parameter look-up.       *)
(***************************************************************************)
EXTENDS Integers, Sequences, FiniteSets, TLC

\* Largest zone count tried under SpecZones.
MaxZones == 3

\* maxAzs of the Vpc props.
MaxAzs == 2

\* createInternetGateway of the Vpc props.
CreateInternetGateway == FALSE

\* cidr of the Vpc props, "10.0.0.0/16", as octets and prefix length.
VpcCidr == [base |-> <<10, 0, 0, 0>>, mask |-> 16]

\* vpc.vpcId
VpcId == "vpc-expenseTracker"

\* destinationCidrBlock of every CfnRoute the stack declares.
DefaultRoute == "0.0.0.0/0"

\* DNS names the load-balancing service may give the NLB.
DnsNames == {"nlb-a.elb.amazonaws.com", "nlb-b.elb.amazonaws.com"}

\* What valueFromLookup hands back for a key it cannot resolve.
DummyValue(key) == "dummy-value-for-" \o key

-----------------------------------------------------------------------------
(* The network stage's declarations, as functions of the zone count.       *)

\* vpc.publicSubnets: one subnet of the 'public-subnet' group per zone, in
\* zone order, indexed from 0 as the array is.
PublicSubnets(n) ==
    [i \in 0..(n - 1) |->
        [id |-> "subnet-public-" \o ToString(i), type |-> "Public", zone |-> i]]

\* vpc.privateSubnets: one subnet of the 'private-subnet' group per zone.
PrivateSubnets(n) ==
    [i \in 0..(n - 1) |->
        [id |-> "subnet-private-" \o ToString(i), type |-> "Private", zone |-> i]]

\* new CfnInternetGateway(this, 'InternetGateway')
InternetGateway == [id |-> "igw-InternetGateway", by |-> "stack"]

\* vpc.publicSubnets[1] is undefined with fewer than two zones, and reading
\* its subnetId throws while the constructor runs.
SynthThrows(n) == 1 \notin DOMAIN PublicSubnets(n)

NatGatewayOne(n) ==
    [id |-> "nat-NatGatewayOne", subnetId |-> PublicSubnets(n)[0].id,
     allocationId |-> "eip-EIPForNatGatewayOne", by |-> "stack"]

\* Faulty variant: the second NAT gateway put in the first public subnet.
NatGatewayTwoSameSubnet(n) ==
    [id |-> "nat-NatGatewayTwo", subnetId |-> PublicSubnets(n)[0].id,
     allocationId |-> "eip-EIPForNatGatewayTwo", by |-> "stack"]

NatGatewayTwo(n) ==
    [id |-> "nat-NatGatewayTwo", subnetId |-> PublicSubnets(n)[1].id,
     allocationId |-> "eip-EIPForNatGatewayTwo", by |-> "stack"]

\* What the Vpc construct adds besides the subnets.  It creates its own
\* internet gateway, the public default routes and the NAT gateways with
\* their private default routes only when createInternetGateway is set.
VpcConstructGateways(n) ==
    IF CreateInternetGateway THEN {[id |-> "igw-IGW", by |-> "construct"]} ELSE {}

VpcConstructNatGateways(n) ==
    IF CreateInternetGateway
    THEN {[id |-> "nat-construct-" \o ToString(i),
           subnetId |-> PublicSubnets(n)[i].id,
           allocationId |-> "eip-construct-" \o ToString(i),
           by |-> "construct"] : i \in 0..(n - 1)}
    ELSE {}

VpcConstructRoutes(n) ==
    IF CreateInternetGateway
    THEN {[routeTable |-> PublicSubnets(n)[i].id, destination |-> DefaultRoute,
           target |-> "igw-IGW"] : i \in 0..(n - 1)}
         \cup
         {[routeTable |-> PrivateSubnets(n)[i].id, destination |-> DefaultRoute,
           target |-> "nat-construct-" \o ToString(i)] : i \in 0..(n - 1)}
    ELSE {}

\* Faulty variant: every private subnet routed to the first NAT gateway.
PrivateRoutesAllToOne(n) ==
    {[routeTable |-> PrivateSubnets(n)[i].id, destination |-> DefaultRoute,
      target |-> NatGatewayOne(n).id] : i \in 0..(n - 1)}

\* vpc.privateSubnets.forEach: PrivateRouteToNatGateway-<index>.  Every
\* subnet has a route table of its own, named here by the subnet.
PrivateRoutes(n) ==
    {[routeTable |-> PrivateSubnets(n)[i].id, destination |-> DefaultRoute,
      target |-> IF i = 0 THEN NatGatewayOne(n).id ELSE NatGatewayTwo(n).id]
        : i \in 0..(n - 1)}

\* vpc.publicSubnets.forEach: PublicRouteToInternetGateway-<index>.
PublicRoutes(n) ==
    {[routeTable |-> PublicSubnets(n)[i].id, destination |-> DefaultRoute,
      target |-> InternetGateway.id] : i \in 0..(n - 1)}

\* Faulty variant: the subnet parameters named without their index.
NetworkParametersUnindexed(n) ==
    {[logicalId |-> "VpcIdExport", parameterName |-> "VpcId", stringValue |-> VpcId]}
    \cup
    {[logicalId |-> "PublicSubnetExport-" \o ToString(i),
      parameterName |-> "PublicSubnet",
      stringValue |-> PublicSubnets(n)[i].id] : i \in 0..(n - 1)}
    \cup
    {[logicalId |-> "PrivateSubnetExport-" \o ToString(i),
      parameterName |-> "PrivateSubnet",
      stringValue |-> PrivateSubnets(n)[i].id] : i \in 0..(n - 1)}

\* Faulty variant: public and private subnet ids exported under each
\* other's names.
NetworkParametersSwapped(n) ==
    {[logicalId |-> "VpcIdExport", parameterName |-> "VpcId", stringValue |-> VpcId]}
    \cup
    {[logicalId |-> "PublicSubnetExport-" \o ToString(i),
      parameterName |-> "PublicSubnet-" \o ToString(i),
      stringValue |-> PrivateSubnets(n)[i].id] : i \in 0..(n - 1)}
    \cup
    {[logicalId |-> "PrivateSubnetExport-" \o ToString(i),
      parameterName |-> "PrivateSubnet-" \o ToString(i),
      stringValue |-> PublicSubnets(n)[i].id] : i \in 0..(n - 1)}

\* The StringParameters the network stack declares: VpcIdExport,
\* PublicSubnetExport-<index>, PrivateSubnetExport-<index>.
NetworkParameters(n) ==
    {[logicalId |-> "VpcIdExport", parameterName |-> "VpcId", stringValue |-> VpcId]}
    \cup
    {[logicalId |-> "PublicSubnetExport-" \o ToString(i),
      parameterName |-> "PublicSubnet-" \o ToString(i),
      stringValue |-> PublicSubnets(n)[i].id] : i \in 0..(n - 1)}
    \cup
    {[logicalId |-> "PrivateSubnetExport-" \o ToString(i),
      parameterName |-> "PrivateSubnet-" \o ToString(i),
      stringValue |-> PrivateSubnets(n)[i].id] : i \in 0..(n - 1)}

-----------------------------------------------------------------------------
VARIABLES
    zones,          \* zones the Vpc construct spreads the subnets over
    netPc,          \* position of the network stage
    vpcs,           \* VPCs that exist: [id, cidr]
    subnets,        \* subnets that exist: [id, type, zone]
    igws,           \* internet gateways: [id, by]
    attachments,    \* gateway attachments: [vpcId, internetGatewayId]
    nats,           \* NAT gateways: [id, subnetId, allocationId, by]
    routes,         \* routes: [routeTable, destination, target]
    netParams,      \* logical ids of the network stack's parameters created
    registry        \* the parameter store: name -> [value, writer]

netVars == <<zones, netPc, vpcs, subnets, igws, attachments, nats, routes, netParams>>

VARIABLES
    svcPc,            \* position of the workload stage
    context,          \* values the stage has looked up: parameter name -> value
    importedVpc,      \* the VPC Vpc.fromLookup found: [id, cidr]
    securityGroups,   \* [id, vpcId, ingress, egress]
    clusters,         \* [name, vpcId, namespace]
    loadBalancers,    \* [name, internetFacing, subnets, dnsName]
    taskDefinitions,  \* [family, image, environment, containerPort, ...]
    services,         \* [name, taskDefinition, desiredCount, securityGroups, subnets, ...]
    targetGroups,     \* [name, port, protocol, targetType, targets]
    listeners         \* [name, port, protocol, defaultTargetGroups]

svcVars == <<svcPc, context, importedVpc, securityGroups, clusters, loadBalancers,
             taskDefinitions, services, targetGroups, listeners>>
vars == <<netVars, registry, svcVars>>

\* AWS::SSM::Parameter creates the parameter and fails when the name is taken.
PutFails(reg, name) == name \in DOMAIN reg

PutParameter(reg, name, value, writer) ==
    IF PutFails(reg, name)
    THEN reg
    ELSE (name :> [value |-> value, writer |-> writer]) @@ reg

NetInit ==
    /\ netPc = "declared"
    /\ vpcs = {}
    /\ subnets = {}
    /\ igws = {}
    /\ attachments = {}
    /\ nats = {}
    /\ routes = {}
    /\ netParams = {}
    /\ registry = << >>

\* The constructor of ExpenseTrackerServicesDeployStack runs.
NetSynth ==
    /\ netPc = "declared"
    /\ netPc' = IF SynthThrows(zones) THEN "failed" ELSE "synthesized"
    /\ UNCHANGED <<zones, vpcs, subnets, igws, attachments, nats, routes,
                   netParams, registry>>
    /\ UNCHANGED svcVars

\* new Vpc(this, "myVPC", ...)
DeployVpc ==
    /\ netPc = "synthesized"
    /\ vpcs' = vpcs \cup {[id |-> VpcId, cidr |-> VpcCidr]}
    /\ subnets' = subnets
                    \cup {PublicSubnets(zones)[i] : i \in DOMAIN PublicSubnets(zones)}
                    \cup {PrivateSubnets(zones)[i] : i \in DOMAIN PrivateSubnets(zones)}
    /\ igws' = igws \cup VpcConstructGateways(zones)
    /\ nats' = nats \cup VpcConstructNatGateways(zones)
    /\ routes' = routes \cup VpcConstructRoutes(zones)
    /\ netPc' = "vpc"
    /\ UNCHANGED <<zones, attachments, netParams, registry>>
    /\ UNCHANGED svcVars

\* new CfnInternetGateway, new CfnVPCGatewayAttachment
DeployInternetGateway ==
    /\ netPc = "vpc"
    /\ igws' = igws \cup {InternetGateway}
    /\ attachments' = attachments
                        \cup {[vpcId |-> VpcId, internetGatewayId |-> InternetGateway.id]}
    /\ netPc' = "gateway"
    /\ UNCHANGED <<zones, vpcs, subnets, nats, routes, netParams, registry>>
    /\ UNCHANGED svcVars

\* new CfnNatGateway 'NatGatewayOne', 'NatGatewayTwo', each with its CfnEIP
DeployNatGateways ==
    /\ netPc = "gateway"
    /\ nats' = nats \cup {NatGatewayOne(zones), NatGatewayTwo(zones)}
    /\ netPc' = "nat"
    /\ UNCHANGED <<zones, vpcs, subnets, igws, attachments, routes, netParams, registry>>
    /\ UNCHANGED svcVars

DeployPrivateRoutes ==
    /\ netPc = "nat"
    /\ routes' = routes \cup PrivateRoutes(zones)
    /\ netPc' = "privateRoutes"
    /\ UNCHANGED <<zones, vpcs, subnets, igws, attachments, nats, netParams, registry>>
    /\ UNCHANGED svcVars

DeployPublicRoutes ==
    /\ netPc = "privateRoutes"
    /\ routes' = routes \cup PublicRoutes(zones)
    /\ netPc' = "routed"
    /\ UNCHANGED <<zones, vpcs, subnets, igws, attachments, nats, netParams, registry>>
    /\ UNCHANGED svcVars

\* The exported parameters refer to the VPC and its subnets alone, so they
\* are created, in any order, once those exist.  A name already taken fails
\* the deployment.
Export ==
    /\ netPc \in {"vpc", "gateway", "nat", "privateRoutes", "routed"}
    /\ \E p \in NetworkParameters(zones) :
        /\ p.logicalId \notin netParams
        /\ IF PutFails(registry, p.parameterName)
           THEN /\ netPc' = "failed"
                /\ UNCHANGED <<netParams, registry>>
           ELSE /\ registry' = PutParameter(registry, p.parameterName,
                                            p.stringValue, "network")
                /\ netParams' = netParams \cup {p.logicalId}
                /\ UNCHANGED netPc
    /\ UNCHANGED <<zones, vpcs, subnets, igws, attachments, nats, routes>>
    /\ UNCHANGED svcVars

\* The network stage has run to completion.
NetworkDone ==
    /\ netPc = "routed"
    /\ netParams = {p.logicalId : p \in NetworkParameters(zones)}

-----------------------------------------------------------------------------
(* The workload stage.                                                     *)


\* Faulty variant: a look-up that goes on with the dummy value.
ResolvableAlways(reg, key) == TRUE

\* StringParameter.valueFromLookup resolves a parameter that exists; the
\* stage cannot go on while it does not.
Resolvable(reg, key) == key \in DOMAIN reg

ValueFromLookup(reg, key) ==
    IF key \in DOMAIN reg THEN reg[key].value ELSE DummyValue(key)

\* Faulty variant: the second subnet looked up under a public subnet's name.
PrivateSubnet2KeyPublic == "PublicSubnet-1"

\* The parameter names the stage looks up.
VpcIdKey == "VpcId"
PrivateSubnet1Key == "PrivateSubnet-0"
PrivateSubnet2Key == "PrivateSubnet-1"

\* vpcSubnets: { subnets: [privateSubnet1, privateSubnet2] }
VpcSubnets(ctx) == {ctx[PrivateSubnet1Key], ctx[PrivateSubnet2Key]}

\* The id of dbSecurityGroup.
SecurityGroupId == "sg-DbSecurityGroup"

\* Faulty variant: the three ports opened to Peer.anyIpv4().
IngressRulesAnyIpv4(cidr) ==
    {[peer |-> [base |-> <<0, 0, 0, 0>>, mask |-> 0], protocol |-> "tcp",
      fromPort |-> p, toPort |-> p] : p \in {3306, 9092, 2181}}

\* The three addIngressRule calls: Peer.ipv4(vpc.vpcCidrBlock), Port.tcp(p).
IngressRules(cidr) ==
    { [peer |-> cidr, protocol |-> "tcp", fromPort |-> 3306, toPort |-> 3306],
      [peer |-> cidr, protocol |-> "tcp", fromPort |-> 9092, toPort |-> 9092],
      [peer |-> cidr, protocol |-> "tcp", fromPort |-> 2181, toPort |-> 2181] }

\* allowAllOutbound: true
EgressRules ==
    { [peer |-> [base |-> <<0, 0, 0, 0>>, mask |-> 0], protocol |-> "all",
       fromPort |-> 0, toPort |-> 65535] }

\* The leading `mask` bits of an address (mask <= 24: the VPC is a /16).
Prefix(ip, mask) == (((ip[1] * 256) + ip[2]) * 256 + ip[3]) \div (2 ^ (24 - mask))

InCidr(ip, cidr) == Prefix(ip, cidr.mask) = Prefix(cidr.base, cidr.mask)

\* What a set of security-group rules lets through: traffic no rule matches
\* is dropped.
Permits(rules, protocol, port, ip) ==
    \E r \in rules :
        /\ r.protocol \in {protocol, "all"}
        /\ r.fromPort <= port /\ port <= r.toPort
        /\ InCidr(ip, r.peer)

\* Faulty variant: a fixed host advertised instead of the NLB's name.
KafkaAdvertisedListenersLocalhost(dnsName) == "PLAINTEXT://" \o "localhost" \o ":9092"

\* KAFKA_ADVERTISED_LISTENERS: `PLAINTEXT://${nlb.loadBalancerDnsName}:9092`
KafkaAdvertisedListeners(dnsName) == "PLAINTEXT://" \o dnsName \o ":9092"

MySQLTaskDef ==
    [family |-> "MySQLTaskDef", image |-> "mysql:8.3.0", containerPort |-> 3306,
     environment |-> [MYSQL_ROOT_PASSWORD |-> "12345", MYSQL_USER |-> "user",
                      MYSQL_PASSWORD |-> "12345", MYSQL_ROOT_USER |-> "root"]]

ZookeeperTaskDef ==
    [family |-> "ZookeeperTaskDef", image |-> "confluentinc/cp-zookeeper:7.4.4",
     memoryLimitMiB |-> 512, cpu |-> 256, containerPort |-> 2181,
     environment |-> [ZOOKEEPER_CLIENT_PORT |-> "2181", ZOOKEEPER_TICK_TIME |-> "2000"]]

KafkaTaskDef(dnsName) ==
    [family |-> "KafkaTaskDef", image |-> "confluentinc/cp-kafka:7.4.4",
     memoryLimitMiB |-> 1024, cpu |-> 512, containerPort |-> 9092,
     environment |-> [KAFKA_BROKER_ID |-> "1",
                      KAFKA_ZOOKEEPER_CONNECT |-> "zookeeper-service.local:2181",
                      KAFKA_ADVERTISED_LISTENERS |-> KafkaAdvertisedListeners(dnsName),
                      KAFKA_LISTENERS |-> "PLAINTEXT://:9092",
                      KAFKA_LISTENER_SECURITY_PROTOCOL_MAP |-> "PLAINTEXT:PLAINTEXT",
                      KAFKA_INTER_BROKER_LISTENER_NAME |-> "PLAINTEXT",
                      KAFKA_OFFSETS_TOPIC_REPLICATION_FACTOR |-> "1",
                      KAFKA_AUTO_CREATE_TOPICS_ENABLE |-> "true",
                      KAFKA_NUM_PARTITIONS |-> "3",
                      KAFKA_DEFAULT_REPLICATION_FACTOR |-> "1",
                      KAFKA_MIN_INSYNC_REPLICAS |-> "1",
                      KAFKA_UNCLEAN_LEADER_ELECTION_ENABLE |-> "false",
                      KAFKA_BROKER_RACK |-> "RACK1"]]

\* Faulty variant: the broker service at desired count 1.
FargateServicesOneKafka(ctx) ==
    { [name |-> "MySQLService", taskDefinition |-> "MySQLTaskDef", desiredCount |-> 1,
       securityGroups |-> {SecurityGroupId}, subnets |-> VpcSubnets(ctx),
       enableExecuteCommand |-> TRUE, cloudMap |-> {}],
      [name |-> "ZookeeperService", taskDefinition |-> "ZookeeperTaskDef",
       desiredCount |-> 3,
       securityGroups |-> {SecurityGroupId}, subnets |-> VpcSubnets(ctx),
       enableExecuteCommand |-> FALSE, cloudMap |-> {"zookeeper-service"}],
      [name |-> "KafkaService", taskDefinition |-> "KafkaTaskDef", desiredCount |-> 1,
       securityGroups |-> {SecurityGroupId}, subnets |-> VpcSubnets(ctx),
       enableExecuteCommand |-> FALSE, cloudMap |-> {"kafka-service"}] }

\* new FargateService 'MySQLService', 'ZookeeperService', 'KafkaService'
FargateServices(ctx) ==
    { [name |-> "MySQLService", taskDefinition |-> "MySQLTaskDef", desiredCount |-> 1,
       securityGroups |-> {SecurityGroupId}, subnets |-> VpcSubnets(ctx),
       enableExecuteCommand |-> TRUE, cloudMap |-> {}],
      [name |-> "ZookeeperService", taskDefinition |-> "ZookeeperTaskDef",
       desiredCount |-> 3,
       securityGroups |-> {SecurityGroupId}, subnets |-> VpcSubnets(ctx),
       enableExecuteCommand |-> FALSE, cloudMap |-> {"zookeeper-service"}],
      [name |-> "KafkaService", taskDefinition |-> "KafkaTaskDef", desiredCount |-> 3,
       securityGroups |-> {SecurityGroupId}, subnets |-> VpcSubnets(ctx),
       enableExecuteCommand |-> FALSE, cloudMap |-> {"kafka-service"}] }

\* new NetworkTargetGroup 'MySQLTargetGroup', 'KafkaTargetGroup', and the
\* addTarget call on each.
NetworkTargetGroups ==
    { [name |-> "MySQLTargetGroup", port |-> 3306, protocol |-> "tcp",
       targetType |-> "ip", targets |-> {"MySQLService"}],
      [name |-> "KafkaTargetGroup", port |-> 9092, protocol |-> "tcp",
       targetType |-> "ip", targets |-> {"KafkaService"}] }

\* nlb.addListener 'MySQLListener', 'KafkaListener'
NlbListeners ==
    { [name |-> "MySQLListener", port |-> 3306, protocol |-> "tcp",
       defaultTargetGroups |-> {"MySQLTargetGroup"}],
      [name |-> "KafkaListener", port |-> 9092, protocol |-> "tcp",
       defaultTargetGroups |-> {"KafkaTargetGroup"}] }

\* Faulty variant: the NLB's name exported under a name already taken.
NlbParameterNameVpcId == "VpcId"

\* parameterName of the StringParameter that exports the NLB's DNS name.
NlbParameterName == "ExpenseTrackerServicesNLB"

SvcInit ==
    /\ svcPc = "declared"
    /\ context = << >>
    /\ importedVpc = {}
    /\ securityGroups = {}
    /\ clusters = {}
    /\ loadBalancers = {}
    /\ taskDefinitions = {}
    /\ services = {}
    /\ targetGroups = {}
    /\ listeners = {}

\* valueFromLookup(this, key) as the step from `from` to `to`.
Lookup(key, from, to) ==
    /\ svcPc = from
    /\ Resolvable(registry, key)
    /\ context' = (key :> ValueFromLookup(registry, key)) @@ context
    /\ svcPc' = to
    /\ UNCHANGED <<netVars, registry, importedVpc, securityGroups, clusters,
                   loadBalancers, taskDefinitions, services, targetGroups, listeners>>

LookupVpcId == Lookup(VpcIdKey, "declared", "vpcId")

\* Vpc.fromLookup(this, "VpcImported", { vpcId })
VpcFromLookup ==
    /\ svcPc = "vpcId"
    /\ \E v \in vpcs :
        /\ v.id = context[VpcIdKey]
        /\ importedVpc' = {v}
    /\ svcPc' = "vpcImported"
    /\ UNCHANGED <<netVars, registry, context, securityGroups, clusters,
                   loadBalancers, taskDefinitions, services, targetGroups, listeners>>

LookupPrivateSubnet1 == Lookup(PrivateSubnet1Key, "vpcImported", "subnet1")

LookupPrivateSubnet2 == Lookup(PrivateSubnet2Key, "subnet1", "planned")

\* new SecurityGroup 'DbSecurityGroup' and its three ingress rules
DeploySecurityGroup ==
    /\ svcPc = "planned"
    /\ \E v \in importedVpc :
        securityGroups' = securityGroups \cup
            {[id |-> SecurityGroupId, vpcId |-> v.id,
              ingress |-> IngressRules(v.cidr), egress |-> EgressRules]}
    /\ svcPc' = "securityGroup"
    /\ UNCHANGED <<netVars, registry, context, importedVpc, clusters, loadBalancers,
                   taskDefinitions, services, targetGroups, listeners>>

\* new Cluster 'DatabaseKafkaCluster'
DeployCluster ==
    /\ svcPc = "securityGroup"
    /\ \E v \in importedVpc :
        clusters' = clusters \cup
            {[name |-> "DatabaseKafkaCluster", vpcId |-> v.id, namespace |-> "local"]}
    /\ svcPc' = "cluster"
    /\ UNCHANGED <<netVars, registry, context, importedVpc, securityGroups,
                   loadBalancers, taskDefinitions, services, targetGroups, listeners>>

\* new NetworkLoadBalancer 'DatabaseNLB'; the service names it.
DeployLoadBalancer ==
    /\ svcPc = "cluster"
    /\ \E d \in DnsNames :
        loadBalancers' = loadBalancers \cup
            {[name |-> "DatabaseNLB", internetFacing |-> FALSE,
              subnets |-> VpcSubnets(context), dnsName |-> d]}
    /\ svcPc' = "loadBalancer"
    /\ UNCHANGED <<netVars, registry, context, importedVpc, securityGroups, clusters,
                   taskDefinitions, services, targetGroups, listeners>>

\* The three FargateTaskDefinitions and their containers.
DeployTaskDefinitions ==
    /\ svcPc = "loadBalancer"
    /\ \E nlb \in loadBalancers :
        taskDefinitions' = taskDefinitions \cup
            {MySQLTaskDef, ZookeeperTaskDef, KafkaTaskDef(nlb.dnsName)}
    /\ svcPc' = "taskDefinitions"
    /\ UNCHANGED <<netVars, registry, context, importedVpc, securityGroups, clusters,
                   loadBalancers, services, targetGroups, listeners>>

DeployServices ==
    /\ svcPc = "taskDefinitions"
    /\ services' = services \cup FargateServices(context)
    /\ svcPc' = "services"
    /\ UNCHANGED <<netVars, registry, context, importedVpc, securityGroups, clusters,
                   loadBalancers, taskDefinitions, targetGroups, listeners>>

DeployTargetGroups ==
    /\ svcPc = "services"
    /\ targetGroups' = targetGroups \cup NetworkTargetGroups
    /\ svcPc' = "targetGroups"
    /\ UNCHANGED <<netVars, registry, context, importedVpc, securityGroups, clusters,
                   loadBalancers, taskDefinitions, services, listeners>>

DeployListeners ==
    /\ svcPc = "targetGroups"
    /\ listeners' = listeners \cup NlbListeners
    /\ svcPc' = "listeners"
    /\ UNCHANGED <<netVars, registry, context, importedVpc, securityGroups, clusters,
                   loadBalancers, taskDefinitions, services, targetGroups>>

\* new StringParameter 'ExpenseTrackerServicesNLB'
PublishLoadBalancer ==
    /\ svcPc = "listeners"
    /\ \E nlb \in loadBalancers :
        registry' = PutParameter(registry, NlbParameterName, nlb.dnsName, "workload")
    /\ svcPc' = IF PutFails(registry, NlbParameterName) THEN "failed" ELSE "done"
    /\ UNCHANGED <<netVars, context, importedVpc, securityGroups, clusters,
                   loadBalancers, taskDefinitions, services, targetGroups, listeners>>

Next ==
    \/ NetSynth
    \/ DeployVpc
    \/ DeployInternetGateway
    \/ DeployNatGateways
    \/ DeployPrivateRoutes
    \/ DeployPublicRoutes
    \/ Export
    \/ LookupVpcId
    \/ VpcFromLookup
    \/ LookupPrivateSubnet1
    \/ LookupPrivateSubnet2
    \/ DeploySecurityGroup
    \/ DeployCluster
    \/ DeployLoadBalancer
    \/ DeployTaskDefinitions
    \/ DeployServices
    \/ DeployTargetGroups
    \/ DeployListeners
    \/ PublishLoadBalancer

Init == zones = MaxAzs /\ NetInit /\ SvcInit
InitZones == zones \in 1..MaxZones /\ NetInit /\ SvcInit
Spec == Init /\ [][Next]_vars
SpecZones == InitZones /\ [][Next]_vars

-----------------------------------------------------------------------------
(* Properties.                                                             *)

NoWorkloadResource ==
    /\ securityGroups = {}
    /\ clusters = {}
    /\ loadBalancers = {}
    /\ taskDefinitions = {}
    /\ services = {}
    /\ targetGroups = {}
    /\ listeners = {}

WrittenBy(stage) == {k \in DOMAIN registry : registry[k].writer = stage}

PublicIds == {s.id : s \in {x \in subnets : x.type = "Public"}}
PrivateIds == {s.id : s \in {x \in subnets : x.type = "Private"}}

\* C1: while VpcId, PrivateSubnet-0 or PrivateSubnet-1 is not in the
\* registry, the workload stage has created no resource and has published
\* nothing.
C1_NoResourceWhileKeyAbsent ==
    (\E k \in {"VpcId", "PrivateSubnet-0", "PrivateSubnet-1"} : k \notin DOMAIN registry)
        => /\ NoWorkloadResource
           /\ WrittenBy("workload") = {}
           /\ svcPc \in {"declared", "vpcId", "vpcImported", "subnet1"}

\* The stage has resolved VpcId and PrivateSubnet-0 and waits for
\* PrivateSubnet-1, which is not published yet.
C1_Witness ==
    /\ svcPc = "subnet1"
    /\ "PrivateSubnet-0" \in DOMAIN context
    /\ "PrivateSubnet-1" \notin DOMAIN registry

\* C2 as stated: the workload stage has a resource only after the network
\* stage has run to completion, and the keys it looked up are the keys the
\* network stage published.
C2_Original ==
    ~NoWorkloadResource
        => /\ NetworkDone
           /\ DOMAIN context = {p.parameterName : p \in NetworkParameters(zones)}

\* C2, amended: the workload stage has a resource only after VpcId,
\* PrivateSubnet-0 and PrivateSubnet-1 were published by the network stage;
\* it looked up exactly these three keys, each resolving to the published
\* value, and they are a proper subset of the keys the network stage
\* declares.
C2_LooksUpThreeOfFive ==
    ~NoWorkloadResource
        => /\ DOMAIN context = {"VpcId", "PrivateSubnet-0", "PrivateSubnet-1"}
           /\ \A k \in DOMAIN context :
                /\ k \in WrittenBy("network")
                /\ context[k] = registry[k].value
           /\ DOMAIN context \subseteq {p.parameterName : p \in NetworkParameters(zones)}
           /\ DOMAIN context # {p.parameterName : p \in NetworkParameters(zones)}

\* The workload stage has resources while the network stage is still
\* creating its own.
C2_Witness ==
    /\ services # {}
    /\ ~NetworkDone
    /\ "PublicSubnet-1" \notin DOMAIN registry

\* An entry, once in the registry, stays as it is.
EntriesKept ==
    \A k \in DOMAIN registry : k \in DOMAIN registry' /\ registry'[k] = registry[k]

\* C3 as stated: only the network stage writes, and no entry is updated or
\* deleted.
C3_Original ==
    /\ [](WrittenBy("network") = DOMAIN registry)
    /\ [][EntriesKept]_vars

\* C3, amended: no entry is updated or deleted once written, and each key
\* has one writer: the network stage writes VpcId and the subnet keys, the
\* workload stage writes ExpenseTrackerServicesNLB, which is in the registry
\* once that stage has ended.
C3_WriteOncePerStage ==
    /\ [](/\ WrittenBy("network") \subseteq
                {"VpcId", "PublicSubnet-0", "PublicSubnet-1",
                 "PrivateSubnet-0", "PrivateSubnet-1"}
          /\ WrittenBy("workload") \subseteq {"ExpenseTrackerServicesNLB"}
          /\ WrittenBy("network") \cup WrittenBy("workload") = DOMAIN registry
          /\ (svcPc \in {"done", "failed"}
                => WrittenBy("workload") = {"ExpenseTrackerServicesNLB"}))
    /\ [][EntriesKept]_vars

\* C3's case: both stages finished; the registry holds six entries.
C3_Witness ==
    /\ svcPc = "done"
    /\ NetworkDone
    /\ Cardinality(DOMAIN registry) = 6

DefaultRoutesOf(s) ==
    {r \in routes : r.routeTable = s.id /\ r.destination = "0.0.0.0/0"}

\* C4: once the network stage has created its routes, every subnet has
\* exactly one default route; a private subnet's goes to a NAT gateway in a
\* public subnet of the same zone, a public subnet's to the one internet
\* gateway.
C4_DefaultRoutes ==
    /\ \A s \in subnets : Cardinality(DefaultRoutesOf(s)) <= 1
    /\ netPc = "routed" =>
        /\ Cardinality(igws) = 1
        /\ \A s \in subnets :
            /\ Cardinality(DefaultRoutesOf(s)) = 1
            /\ \A r \in DefaultRoutesOf(s) :
                IF s.type = "Private"
                THEN \E g \in nats : \E p \in subnets :
                        /\ g.id = r.target
                        /\ p.id = g.subnetId
                        /\ p.type = "Public"
                        /\ p.zone = s.zone
                ELSE r.target \in {g.id : g \in igws}

\* C4's case: two zones, all four default routes created.
C4_Witness ==
    /\ netPc = "routed"
    /\ Cardinality({s \in subnets : s.type = "Private"}) = 2
    /\ Cardinality({s \in subnets : s.type = "Public"}) = 2
    /\ Cardinality(routes) = 4

\* One NAT gateway per zone, in that zone's public subnet.
NatPerZone ==
    \A z \in 0..(zones - 1) :
        Cardinality({g \in nats : \E p \in subnets :
                        p.id = g.subnetId /\ p.type = "Public" /\ p.zone = z}) = 1

C6_PrivatePlacement ==
    /\ \A s \in services :
        /\ s.subnets # {}
        /\ s.subnets \subseteq PrivateIds
        /\ s.subnets \cap PublicIds = {}
    /\ \A b \in loadBalancers :
        /\ b.subnets # {}
        /\ b.subnets \subseteq PrivateIds
        /\ b.subnets \cap PublicIds = {}

\* C6's case: the three services exist, each on two subnets.
C6_Witness ==
    /\ Cardinality(services) = 3
    /\ \A s \in services : Cardinality(s.subnets) = 2

\* Sample traffic for the security group.
TestProtocols == {"tcp", "udp", "icmp"}
TestPorts == {22, 80, 2181, 2182, 3306, 3307, 9092, 9093}
TestAddresses ==
    { <<10, 0, 0, 5>>, <<10, 0, 2, 17>>, <<10, 0, 255, 254>>, <<10, 1, 0, 1>>,
      <<10, 128, 0, 1>>, <<11, 0, 0, 5>>, <<8, 8, 8, 8>>, <<192, 168, 0, 1>> }

\* C7: the one security group, attached to every service, lets inbound
\* traffic through exactly when it is TCP to port 3306, 9092 or 2181 from an
\* address in 10.0.0.0/16, and lets all outbound traffic through.
C7_SecurityBoundary ==
    /\ Cardinality(securityGroups) <= 1
    /\ \A s \in services : s.securityGroups = {g.id : g \in securityGroups}
    /\ services # {} => Cardinality(securityGroups) = 1
    /\ \A g \in securityGroups :
        \A proto \in TestProtocols : \A port \in TestPorts : \A ip \in TestAddresses :
            /\ Permits(g.ingress, proto, port, ip)
                <=> /\ proto = "tcp"
                    /\ port \in {3306, 9092, 2181}
                    /\ ip[1] = 10 /\ ip[2] = 0
            /\ Permits(g.egress, proto, port, ip)

\* C7's case: the group is attached to the three services, lets MySQL
\* traffic from inside the VPC in and keeps other sources and ports out.
C7_Witness ==
    /\ Cardinality(services) = 3
    /\ \E g \in securityGroups :
        /\ Permits(g.ingress, "tcp", 3306, <<10, 0, 2, 17>>)
        /\ ~Permits(g.ingress, "tcp", 3306, <<10, 1, 0, 1>>)
        /\ ~Permits(g.ingress, "tcp", 22, <<10, 0, 2, 17>>)

\* C8: with two zones the finished network stage has published five
\* entries: VpcId holds the VPC's id, PublicSubnet-i the id of the public
\* subnet of index i, PrivateSubnet-i that of the private one; no write of
\* the stage fails on a duplicate name.
C8_FiveEntries ==
    /\ netPc # "failed"
    /\ NetworkDone =>
        /\ zones = 2
        /\ WrittenBy("network") =
            {"VpcId", "PublicSubnet-0", "PublicSubnet-1",
             "PrivateSubnet-0", "PrivateSubnet-1"}
        /\ Cardinality(WrittenBy("network")) = 5
        /\ registry["VpcId"].value \in {v.id : v \in vpcs}
        /\ \A i \in {0, 1} :
            /\ \E s \in subnets :
                /\ s.type = "Public" /\ s.zone = i
                /\ registry["PublicSubnet-" \o ToString(i)].value = s.id
            /\ \E s \in subnets :
                /\ s.type = "Private" /\ s.zone = i
                /\ registry["PrivateSubnet-" \o ToString(i)].value = s.id

\* C8's case: the network stage finished before the workload stage began.
C8_Witness ==
    /\ NetworkDone
    /\ Cardinality(subnets) = 4
    /\ svcPc = "declared"

ServiceCount(name) == {s.desiredCount : s \in {x \in services : x.name = name}}

\* C9: the finished workload stage has the database service at desired
\* count 1, the coordination and broker services at 3, and two internal TCP
\* listeners, 3306 and 9092, each with one target group of its own port
\* holding one service (the database for 3306, the broker for 9092);
\* nothing listens on or targets 2181.
C9_ServicesAndListeners ==
    svcPc = "done" =>
        /\ Cardinality(services) = 3
        /\ ServiceCount("MySQLService") = {1}
        /\ ServiceCount("ZookeeperService") = {3}
        /\ ServiceCount("KafkaService") = {3}
        /\ Cardinality(loadBalancers) = 1
        /\ \A b \in loadBalancers : ~b.internetFacing
        /\ Cardinality(listeners) = 2
        /\ {<<l.port, l.protocol>> : l \in listeners} = {<<3306, "tcp">>, <<9092, "tcp">>}
        /\ \A l \in listeners :
            /\ Cardinality(l.defaultTargetGroups) = 1
            /\ \A t \in l.defaultTargetGroups :
                \E g \in targetGroups :
                    /\ g.name = t
                    /\ g.port = l.port
                    /\ g.targets = (IF l.port = 3306 THEN {"MySQLService"}
                                                     ELSE {"KafkaService"})
                    /\ g.targets \subseteq {s.name : s \in services}
        /\ Cardinality(targetGroups) = 2
        /\ \A g \in targetGroups : Cardinality(g.targets) = 1 /\ g.port # 2181
        /\ \A l \in listeners : l.port # 2181

\* C9's case: the workload stage finished.
C9_Witness ==
    /\ svcPc = "done"
    /\ Cardinality(listeners) = 2
    /\ Cardinality(services) = 3

KafkaEnvironment ==
    {t.environment.KAFKA_ADVERTISED_LISTENERS :
        t \in {x \in taskDefinitions : x.family = "KafkaTaskDef"}}

\* C10: when the workload stage has finished, the registry holds the load
\* balancer's DNS name under ExpenseTrackerServicesNLB, and the broker's
\* KAFKA_ADVERTISED_LISTENERS is PLAINTEXT://<that name>:9092.
C10_PublishedAddressEmbedded ==
    svcPc = "done" =>
        /\ "ExpenseTrackerServicesNLB" \in DOMAIN registry
        /\ {registry["ExpenseTrackerServicesNLB"].value}
                = {b.dnsName : b \in loadBalancers}
        /\ KafkaEnvironment =
            {"PLAINTEXT://" \o registry["ExpenseTrackerServicesNLB"].value \o ":9092"}

\* C10's case: the workload stage finished with the second DNS name.
C10_Witness ==
    /\ svcPc = "done"
    /\ "ExpenseTrackerServicesNLB" \in DOMAIN registry
    /\ registry["ExpenseTrackerServicesNLB"].value = "nlb-b.elb.amazonaws.com"
    /\ KafkaEnvironment = {"PLAINTEXT://nlb-b.elb.amazonaws.com:9092"}
====
